---- MODULE Spec2Model ----
(***************************************************************************)
(* NAVStrikeEngine (nav-strike-engine.ts, web3.js and Solana Kit          *)
(* versions): the order queue, updateNAV, processSubscription,            *)
(* processRedemption and executeStrike, as a state machine.               *)
(*                                                                         *)
(* The engine is one JavaScript object.  Its async methods run            *)
(* synchronously up to an await and resume in a later turn of the event   *)
(* loop, so several calls can be in flight at once.  One action of the    *)
(* model is one synchronous stretch of code.  The ledger (the RPC node)   *)
(* answers a submitted transaction with a confirmation, an error or a     *)
(* timeout.                                                                *)
(*                                                                         *)
(* Numbers are exact rationals <<numerator, denominator>>; a zero         *)
(* denominator stands for the non-finite values of a division by zero.    *)
(***************************************************************************)
EXTENDS Integers, Sequences, FiniteSets, TLC

\* ---------------------------------------------------------------- bounds
MaxOrders == 2        \* queueOrder calls explored under Spec
MaxQueued == 3        \* queueOrder calls explored under QueueSpec, ScheduleSpec
MaxTime == 3          \* latest time of day explored under ScheduleSpec
MaxEntries == 3       \* longest strike schedule explored under ScheduleSpec
MaxCalls == 2         \* executeStrike and direct updateNAV calls explored
MaxAmount == 1        \* largest order amount explored

\* ------------------------------------------------------------ arithmetic
Abs(x) == IF x < 0 THEN -x ELSE x

Sign(x) == IF x < 0 THEN -1 ELSE IF x > 0 THEN 1 ELSE 0

RECURSIVE Gcd(_, _)
Gcd(a, b) == IF b = 0 THEN a ELSE Gcd(b, a % b)

\* the number n/d in lowest terms; n/0 is Infinity, -Infinity or NaN
Num(n, d) ==
  IF d = 0 THEN <<Sign(n), 0>>
  ELSE LET g == Gcd(Abs(n), Abs(d))
           s == IF d < 0 THEN -1 ELSE 1
       IN  <<(s * n) \div g, (s * d) \div g>>

Zero == <<0, 1>>

One == <<1, 1>>

IsFinite(x) == x[2] # 0

Add(x, y) == Num(x[1] * y[2] + y[1] * x[2], x[2] * y[2])

Sub(x, y) == Num(x[1] * y[2] - y[1] * x[2], x[2] * y[2])

Mul(x, y) == Num(x[1] * y[1], x[2] * y[2])

Div(x, y) == Num(x[1] * y[2], x[2] * y[1])

Leq(x, y) == x[1] * y[2] <= y[1] * x[2]

\* token amounts carry 6 decimals on the ledger
LedgerScale == 1000000

\* Math.floor(x * 1e6): the integer amount put into an instruction (the
\* whole part and the fraction are scaled apart to keep the products small)
FloorUnits(x) ==
  (x[1] \div x[2]) * LedgerScale + ((x[1] % x[2]) * LedgerScale) \div x[2]

\* ---------------------------------------------------------------- inputs
OrderTypes == {"subscribe", "redeem"}

Amounts == 0..MaxAmount

\* NAV values passed to executeStrike / updateNAV (the code accepts any number)
NavInputs == {Zero, One, <<3, 1>>}

\* times of day ("HH:MM" strings compare like the numbers they denote)
Times == {0, 2}

Schedules == {<<>>, <<1, 2>>}

\* the schedules createFundToken may be given: any array of times, in any
\* order, and the times of day a call may be made at
ScheduleInputs == UNION {[1..n -> 1..MaxTime] : n \in 0..MaxEntries}

TimeInputs == 0..MaxTime

Outcomes == {"confirmed", "error", "timeout"}

Strikes == 1..MaxCalls

OrderIds == 1..MaxQueued

\* ----------------------------------------------------------------- state
VARIABLES
  currentNAV,              \* this.currentNAV
  totalAUM,                \* this.totalAUM
  totalSharesOutstanding,  \* this.totalSharesOutstanding
  strikeSchedule,          \* this.strikeSchedule
  lastStrikeTime,          \* this.lastStrikeTime, as a logical clock reading
  now,                     \* the wall clock's time of day
  pendingOrders,           \* this.pendingOrders: the order objects in queue order
  orderCounter,            \* this.orderCounter
  orders,                  \* the StrikeOrder objects ever created, by id
  strike,                  \* the executeStrike activations
  navCalls,                \* direct updateNAV calls awaiting the ledger
  calls,                   \* executeStrike and updateNAV calls made so far
  submitCount,             \* per order: settlement transactions sent to the ledger
  applyCount,              \* per order: times its deltas were added to the totals
  pendingView              \* the array the last getPendingOrders call returned

vars == <<currentNAV, totalAUM, totalSharesOutstanding, strikeSchedule,
          lastStrikeTime, now, pendingOrders, orderCounter, orders, strike,
          navCalls, calls, submitCount, applyCount, pendingView>>

fundVars == <<currentNAV, totalAUM, totalSharesOutstanding, lastStrikeTime>>

envVars == <<strikeSchedule, now>>

\* number.toFixed(digits): the decimal with that many fractional digits
\* nearest to x, as a number; Infinity and NaN print as themselves
ToFixed(x, digits) ==
  IF ~IsFinite(x) THEN x
  ELSE LET scale == 10 ^ digits
       IN  Num(Sign(x[1]) * ((2 * Abs(x[1]) * scale + x[2]) \div (2 * x[2])),
               scale)

\* the three fields the updateNAV transaction writes into the fund's
\* metadata: currentNAV.toFixed(6), lastStrikeTime, totalAUM.toFixed(2)
MetadataUpdate(nav, time, aum) ==
  [currentNAV |-> ToFixed(nav, 6), lastStrikeTime |-> time,
   totalAUM |-> ToFixed(aum, 2)]

\* an id for which no StrikeOrder object has been created
NoOrder ==
  [orderType |-> "none", amount |-> Zero, strikeTime |-> <<0, 0>>,
   status |-> "absent"]

\* the locals of an executeStrike call that has not been made
IdleStrike ==
  [pc |-> "idle", newNAV |-> Zero,
   subscriptions |-> <<>>, redemptions |-> <<>>, i |-> 0,
   legAmount |-> Zero, priceUsed |-> Zero, resp |-> "none", sent |-> FALSE,
   amountUnits |-> 0, legUnits |-> 0,
   update |-> MetadataUpdate(Zero, 0, Zero),
   ok |-> FALSE, executionNAV |-> Zero,
   signatures |-> <<>>,
   totalUSDCSubscribed |-> Zero, totalSharesMinted |-> Zero,
   totalSharesRedeemed |-> Zero, totalUSDCPaid |-> Zero,
   subscriptionsProcessed |-> 0, redemptionsProcessed |-> 0,
   nav |-> Zero,
   attempted |-> <<>>, pendingAtCall |-> {}, confirmed |-> <<>>,
   preAUM |-> Zero, preShares |-> Zero]

\* the engine after construction, but for its schedule and the clock
Constructed ==
  /\ currentNAV = One
  /\ totalAUM = Zero
  /\ totalSharesOutstanding = Zero
  /\ lastStrikeTime = 0
  /\ pendingOrders = <<>>
  /\ orderCounter = 0
  /\ orders = [o \in OrderIds |-> NoOrder]
  /\ strike = [s \in Strikes |-> IdleStrike]
  /\ navCalls = 0
  /\ calls = 0
  /\ submitCount = [o \in OrderIds |-> 0]
  /\ applyCount = [o \in OrderIds |-> 0]
  /\ pendingView = <<>>

Init ==
  /\ strikeSchedule \in Schedules
  /\ now \in Times
  /\ Constructed

\* ------------------------------------------------------- pure operations
\* getNextStrikeTime: the first schedule entry, in array order, later than
\* now, today (day 0); else entry 0 tomorrow (day 1).  The array is scanned
\* as stored.  With an empty schedule strikeSchedule[0] is undefined and
\* the call throws.
RECURSIVE FirstLater(_, _, _)
FirstLater(schedule, t, k) ==
  IF k > Len(schedule) THEN 0
  ELSE IF schedule[k] > t THEN k
  ELSE FirstLater(schedule, t, k + 1)

NextStrikeThrows(schedule, t) ==
  FirstLater(schedule, t, 1) = 0 /\ schedule = <<>>

getNextStrikeTime(schedule, t) ==
  LET k == FirstLater(schedule, t, 1)
  IN  IF k # 0 THEN <<0, schedule[k]>> ELSE <<1, schedule[1]>>

\* mutant: the filters look at the type only
PendingOfTypeAnyStatus(queue, ords, type) ==
  SelectSeq(queue, LAMBDA o : ords[o].orderType = type)

\* the filters of executeStrike: pending orders of one type, in queue order
PendingOfType(queue, ords, type) ==
  SelectSeq(queue, LAMBDA o : ords[o].orderType = type
                              /\ ords[o].status = "pending")

\* mutant: each purge removes the first executed or failed order only
RECURSIVE PurgeFirstTerminal(_, _)
PurgeFirstTerminal(queue, ords) ==
  IF queue = <<>> THEN <<>>
  ELSE IF ords[Head(queue)].status # "pending" THEN Tail(queue)
  ELSE <<Head(queue)>> \o PurgeFirstTerminal(Tail(queue), ords)

\* mutant: only the executed orders are cleared, the failed ones stay
PurgeExecutedOnly(queue, ords) ==
  SelectSeq(queue, LAMBDA o : ords[o].status # "executed")

\* "Clear executed orders": keep the orders whose status is pending
PurgeTerminal(queue, ords) ==
  SelectSeq(queue, LAMBDA o : ords[o].status = "pending")

\* processSubscription: sharesToMint = usdcAmount / this.currentNAV
SharesToMint(usdcAmount, nav) == Div(usdcAmount, nav)

\* mutant: the redemption divides by the NAV as the subscription does
UsdcToPayDivides(shareAmount, nav) == Div(shareAmount, nav)

\* processRedemption: usdcToPay = shareAmount * this.currentNAV
UsdcToPay(shareAmount, nav) == Mul(shareAmount, nav)

\* an instruction amount must be a finite, non-negative integer: building
\* the instruction throws otherwise (BigInt of a non-finite number)
Encodable(x) == IsFinite(x) /\ FloorUnits(x) >= 0

\* mutant: the await never throws
ResolvesAlways(resp) == TRUE

\* mutant: a confirmation timeout is taken for a confirmation
ResolvesUnlessError(resp) == resp # "error"

\* "await sendAndConfirmTransaction(...)" resolves on a confirmation and
\* throws on a submission error or a confirmation timeout
Resolves(resp) == resp = "confirmed"

\* mutant: the catch branch leaves the order as it was
StatusAfterKeepsPending(ok) == IF ok THEN "executed" ELSE "pending"

\* status given to an order by the try / catch around its settlement
StatusAfter(ok) == IF ok THEN "executed" ELSE "failed"

\* --------------------------------------------------- executeStrike locals
OrderCount(sr) == Len(sr.subscriptions) + Len(sr.redemptions)

\* mutant: the first failure ends the loops
HasNextUnlessFailed(sr) == sr.i < OrderCount(sr) /\ (sr.i = 0 \/ sr.ok)

\* mutant: the loops stop one order short
HasNextButLast(sr) == sr.i + 1 < OrderCount(sr)

HasNext(sr) == sr.i < OrderCount(sr)

\* mutant: the redemption loop runs before the subscription loop
OrderAtRedemptionsFirst(sr, k) ==
  IF k <= Len(sr.redemptions) THEN sr.redemptions[k]
  ELSE sr.subscriptions[k - Len(sr.redemptions)]

OrderAt(sr, k) ==
  IF k <= Len(sr.subscriptions) THEN sr.subscriptions[k]
  ELSE sr.redemptions[k - Len(sr.subscriptions)]

InSubscriptions(sr) == sr.i <= Len(sr.subscriptions)

CurrentOrder(sr) == OrderAt(sr, sr.i)

\* the next loop iteration up to its await: processSubscription or
\* processRedemption reads this.currentNAV, computes the second leg and
\* sends the transaction, whose two instructions carry Math.floor(x * 1e6)
\* of the order's amount and of the computed leg; a transaction that cannot
\* be built throws at once
Begin(sr, nav, ords) ==
  LET k == sr.i + 1
      o == OrderAt(sr, k)
      isSub == k <= Len(sr.subscriptions)
      leg == IF isSub THEN SharesToMint(ords[o].amount, nav)
             ELSE UsdcToPay(ords[o].amount, nav)
      sendable == Encodable(ords[o].amount) /\ Encodable(leg)
  IN  [sr EXCEPT !.pc = "settleAwait", !.i = k, !.legAmount = leg,
                 !.priceUsed = nav,
                 !.resp = IF sendable THEN "none" ELSE "error",
                 !.sent = sendable,
                 !.amountUnits = IF sendable THEN FloorUnits(ords[o].amount)
                                 ELSE 0,
                 !.legUnits = IF sendable THEN FloorUnits(leg) ELSE 0,
                 !.attempted = Append(@, o)]

\* the return statement: nav is read from this.currentNAV
Finish(sr, nav) ==
  [sr EXCEPT !.pc = "returned", !.nav = nav, !.resp = "none", !.sent = FALSE,
             !.ok = FALSE, !.legAmount = Zero, !.priceUsed = Zero,
             !.amountUnits = 0, !.legUnits = 0,
             !.executionNAV = Zero]

\* what executeStrike does between two awaits once the previous order is
\* dealt with: start the next order, or purge and return
Proceed(s, sr, ords) ==
  IF HasNext(sr)
  THEN LET sr2 == Begin(sr, currentNAV, ords)
       IN  /\ strike' = [strike EXCEPT ![s] = sr2]
           /\ submitCount' = IF sr2.sent
                             THEN [submitCount EXCEPT ![CurrentOrder(sr2)] = @ + 1]
                             ELSE submitCount
           /\ pendingOrders' = pendingOrders
  ELSE /\ strike' = [strike EXCEPT ![s] = Finish(sr, currentNAV)]
       /\ submitCount' = submitCount
       /\ pendingOrders' = PurgeTerminal(pendingOrders, ords)

\* ---------------------------------------------------------------- actions
\* mutant: a subscription is booked into totalAUM when it is queued
QueueOrderBooksAmount(orderType, amount) ==
  /\ orderCounter' = orderCounter + 1
  /\ IF NextStrikeThrows(strikeSchedule, now)
     THEN UNCHANGED <<orders, pendingOrders>>
     ELSE /\ orders' = [orders EXCEPT ![orderCounter + 1] =
                          [orderType |-> orderType, amount |-> Num(amount, 1),
                           strikeTime |-> getNextStrikeTime(strikeSchedule, now),
                           status |-> "pending"]]
          /\ pendingOrders' = Append(pendingOrders, orderCounter + 1)
  /\ totalAUM' = IF orderType = "subscribe"
                 THEN Add(totalAUM, Num(amount, 1)) ELSE totalAUM
  /\ UNCHANGED <<currentNAV, totalSharesOutstanding, lastStrikeTime, envVars,
                 strike, navCalls, calls, submitCount, applyCount, pendingView>>

\* mutant: the counter goes back to 1
NextOrderIdRestarts(counter) == 1

\* ++this.orderCounter: the counter after the increment, which names the
\* new order (ORD-<n>)
NextOrderId(counter) == counter + 1

\* queueOrder(investor, orderType, amount): the object literal increments the
\* counter first, then calls getNextStrikeTime, which may throw; the push
\* follows
QueueOrder(orderType, amount) ==
  /\ orderCounter' = NextOrderId(orderCounter)
  /\ IF NextStrikeThrows(strikeSchedule, now)
     THEN UNCHANGED <<orders, pendingOrders>>
     ELSE /\ orders' = [orders EXCEPT ![NextOrderId(orderCounter)] =
                          [orderType |-> orderType, amount |-> Num(amount, 1),
                           strikeTime |-> getNextStrikeTime(strikeSchedule, now),
                           status |-> "pending"]]
          /\ pendingOrders' = Append(pendingOrders, NextOrderId(orderCounter))
  /\ UNCHANGED <<fundVars, envVars, strike, navCalls, calls,
                 submitCount, applyCount, pendingView>>

\* getPendingOrders(): returns a new array holding the queue's order objects
GetPendingOrders ==
  /\ pendingView' = pendingOrders
  /\ UNCHANGED <<fundVars, envVars, pendingOrders, orderCounter, orders,
                 strike, navCalls, calls, submitCount, applyCount>>

\* executeStrike(fundMint, usdcMint, newNAV) up to the await inside updateNAV:
\* updateNAV assigns currentNAV and lastStrikeTime, then sends the metadata
\* transaction, which carries the new NAV, the new lastStrikeTime and
\* totalAUM as it is now
ExecuteStrike(s, newNAV) ==
  /\ strike[s].pc = "idle"
  /\ \A t \in Strikes : t < s => strike[t].pc # "idle"
  /\ calls < MaxCalls
  /\ calls' = calls + 1
  /\ currentNAV' = newNAV
  /\ lastStrikeTime' = lastStrikeTime + 1
  /\ strike' = [strike EXCEPT ![s] =
       [@ EXCEPT !.pc = "navAwait", !.newNAV = newNAV, !.resp = "none",
                 !.update = MetadataUpdate(newNAV, lastStrikeTime + 1, totalAUM),
                 !.pendingAtCall = {o \in OrderIds : orders[o].status = "pending"},
                 !.preAUM = totalAUM,
                 !.preShares = totalSharesOutstanding]]
  /\ UNCHANGED <<totalAUM, totalSharesOutstanding, envVars,
                 pendingOrders, orderCounter, orders, navCalls,
                 submitCount, applyCount, pendingView>>

\* the ledger answers the transaction a strike is waiting for
LedgerRespond(s, outcome) ==
  /\ strike[s].pc \in {"navAwait", "settleAwait"}
  /\ strike[s].resp = "none"
  /\ strike' = [strike EXCEPT ![s] =
       [@ EXCEPT !.resp = outcome,
                 !.confirmed =
                    IF strike[s].pc = "settleAwait" /\ outcome = "confirmed"
                    THEN Append(@, [order |-> CurrentOrder(strike[s]),
                                    leg |-> strike[s].legAmount,
                                    amountUnits |-> strike[s].amountUnits,
                                    legUnits |-> strike[s].legUnits])
                    ELSE @]]
  /\ UNCHANGED <<fundVars, envVars, pendingOrders, orderCounter,
                 orders, navCalls, calls, submitCount, applyCount, pendingView>>

\* executeStrike resumes after "await this.updateNAV": a rejected updateNAV
\* rejects the strike; otherwise the two snapshots are taken and the first
\* order is started (or, with no order, the strike returns)
StrikeAfterNAV(s) ==
  /\ strike[s].pc = "navAwait"
  /\ strike[s].resp # "none"
  /\ IF ~Resolves(strike[s].resp)
     THEN /\ strike' = [strike EXCEPT ![s] =
                    [@ EXCEPT !.pc = "thrown", !.resp = "none"]]
          /\ UNCHANGED <<pendingOrders, submitCount>>
     ELSE Proceed(s,
            [strike[s] EXCEPT
               !.subscriptions = PendingOfType(pendingOrders, orders, "subscribe"),
               !.redemptions = PendingOfType(pendingOrders, orders, "redeem"),
               !.i = 0],
            orders)
  /\ UNCHANGED <<fundVars, envVars, orderCounter, orders,
                 navCalls, calls, applyCount, pendingView>>

\* mutant: processRedemption books the USDC leg only
SettlementResumeOneLeg(s) ==
  LET sr == strike[s]
      o == CurrentOrder(sr)
  IN  /\ sr.pc = "settleAwait"
      /\ sr.resp # "none"
      /\ IF Resolves(sr.resp)
         THEN /\ totalAUM' = IF InSubscriptions(sr)
                             THEN Add(totalAUM, orders[o].amount)
                             ELSE Sub(totalAUM, sr.legAmount)
              /\ totalSharesOutstanding' =
                   IF InSubscriptions(sr)
                   THEN Add(totalSharesOutstanding, sr.legAmount)
                   ELSE totalSharesOutstanding
              /\ applyCount' = [applyCount EXCEPT ![o] = @ + 1]
              /\ strike' = [strike EXCEPT ![s] =
                   [@ EXCEPT !.pc = "settled", !.ok = TRUE, !.resp = "none",
                             !.executionNAV = currentNAV]]
         ELSE /\ strike' = [strike EXCEPT ![s] =
                   [@ EXCEPT !.pc = "settled", !.ok = FALSE, !.resp = "none"]]
              /\ UNCHANGED <<totalAUM, totalSharesOutstanding, applyCount>>
      /\ UNCHANGED <<currentNAV, lastStrikeTime, envVars, pendingOrders,
                     orderCounter, orders, navCalls, calls, submitCount,
                     pendingView>>

\* processSubscription / processRedemption resumes after
\* sendAndConfirmTransaction: on confirmation it updates the totals and
\* returns its result; otherwise it throws
SettlementResume(s) ==
  LET sr == strike[s]
      o == CurrentOrder(sr)
  IN  /\ sr.pc = "settleAwait"
      /\ sr.resp # "none"
      /\ IF Resolves(sr.resp)
         THEN /\ totalAUM' = IF InSubscriptions(sr)
                             THEN Add(totalAUM, orders[o].amount)
                             ELSE Sub(totalAUM, sr.legAmount)
              /\ totalSharesOutstanding' =
                   IF InSubscriptions(sr)
                   THEN Add(totalSharesOutstanding, sr.legAmount)
                   ELSE Sub(totalSharesOutstanding, orders[o].amount)
              /\ applyCount' = [applyCount EXCEPT ![o] = @ + 1]
              /\ strike' = [strike EXCEPT ![s] =
                   [@ EXCEPT !.pc = "settled", !.ok = TRUE, !.resp = "none",
                             !.executionNAV = currentNAV]]
         ELSE /\ strike' = [strike EXCEPT ![s] =
                   [@ EXCEPT !.pc = "settled", !.ok = FALSE, !.resp = "none"]]
              /\ UNCHANGED <<totalAUM, totalSharesOutstanding, applyCount>>
      /\ UNCHANGED <<currentNAV, lastStrikeTime, envVars, pendingOrders,
                     orderCounter, orders, navCalls, calls, submitCount, pendingView>>

\* the try branch after a settlement of order o returned its result: the
\* signature is pushed and the amounts of the result join the aggregates of
\* its kind
Accumulated(sr, o, amount) ==
  LET isSub == InSubscriptions(sr)
  IN  [sr EXCEPT
         !.signatures = Append(@, o),
         !.totalUSDCSubscribed = IF isSub THEN Add(@, amount) ELSE @,
         !.totalSharesMinted = IF isSub THEN Add(@, sr.legAmount) ELSE @,
         !.subscriptionsProcessed = IF isSub THEN @ + 1 ELSE @,
         !.totalSharesRedeemed = IF isSub THEN @ ELSE Add(@, amount),
         !.totalUSDCPaid = IF isSub THEN @ ELSE Add(@, sr.legAmount),
         !.redemptionsProcessed = IF isSub THEN @ ELSE @ + 1]

\* mutant: a settlement that threw is reported like one that returned
TakenUpAlways(sr, o, amount) == Accumulated(sr, o, amount)

\* the locals of executeStrike after the try / catch around one settlement:
\* the catch branch accumulates nothing
TakenUp(sr, o, amount) == IF sr.ok THEN Accumulated(sr, o, amount) ELSE sr

\* mutant: no try / catch around the settlement, so that the first
\* settlement that throws rejects the strike
StrikeContinueUncaught(s) ==
  LET sr == strike[s]
      o == CurrentOrder(sr)
  IN  /\ sr.pc = "settled"
      /\ IF sr.ok
         THEN \E ords \in {[orders EXCEPT ![o].status = "executed"]},
                 sr1 \in {Accumulated(sr, o, orders[o].amount)} :
                /\ orders' = ords
                /\ Proceed(s, sr1, ords)
         ELSE /\ strike' = [strike EXCEPT ![s] = [@ EXCEPT !.pc = "thrown"]]
              /\ UNCHANGED <<orders, submitCount, pendingOrders>>
      /\ UNCHANGED <<fundVars, envVars, orderCounter, navCalls, calls, applyCount, pendingView>>

\* executeStrike resumes after "await this.processSubscription/Redemption":
\* the try branch marks the order executed and accumulates the result, the
\* catch branch marks it failed; then the loop goes on
StrikeContinue(s) ==
  LET sr == strike[s]
      o == CurrentOrder(sr)
  IN  /\ sr.pc = "settled"
      /\ \E ords \in {[orders EXCEPT ![o].status = StatusAfter(sr.ok)]},
            sr1 \in {TakenUp(sr, o, orders[o].amount)} :
           /\ orders' = ords
           /\ Proceed(s, sr1, ords)
      /\ UNCHANGED <<fundVars, envVars, orderCounter, navCalls, calls, applyCount, pendingView>>

\* mutant: a direct updateNAV call empties the order queue
UpdateNAVClearsQueue(newNAV) ==
  /\ calls < MaxCalls
  /\ calls' = calls + 1
  /\ navCalls' = navCalls + 1
  /\ currentNAV' = newNAV
  /\ lastStrikeTime' = lastStrikeTime + 1
  /\ pendingOrders' = <<>>
  /\ UNCHANGED <<totalAUM, totalSharesOutstanding, envVars,
                 orderCounter, orders, strike, submitCount,
                 applyCount, pendingView>>

\* a direct updateNAV(fundMint, newNAV) call up to its await
UpdateNAV(newNAV) ==
  /\ calls < MaxCalls
  /\ calls' = calls + 1
  /\ navCalls' = navCalls + 1
  /\ currentNAV' = newNAV
  /\ lastStrikeTime' = lastStrikeTime + 1
  /\ UNCHANGED <<totalAUM, totalSharesOutstanding, envVars,
                 pendingOrders, orderCounter, orders, strike, submitCount,
                 applyCount, pendingView>>

\* the ledger answers a direct updateNAV transaction and the call logs and
\* returns its signature, or throws: no field is assigned after the await
UpdateNAVReturn(outcome) ==
  /\ navCalls > 0
  /\ navCalls' = navCalls - 1
  /\ UNCHANGED <<fundVars, envVars, pendingOrders, orderCounter,
                 orders, strike, calls, submitCount, applyCount, pendingView>>

Next ==
  \/ \E t \in OrderTypes, a \in Amounts :
       orderCounter < MaxOrders /\ QueueOrder(t, a)
  \/ \E s \in Strikes, n \in NavInputs : ExecuteStrike(s, n)
  \/ \E s \in Strikes, r \in Outcomes : LedgerRespond(s, r)
  \/ \E s \in Strikes : StrikeAfterNAV(s)
  \/ \E s \in Strikes : SettlementResume(s)
  \/ \E s \in Strikes : StrikeContinue(s)
  \/ \E n \in NavInputs : UpdateNAV(n)
  \/ \E r \in Outcomes : UpdateNAVReturn(r)

Spec == Init /\ [][Next]_vars

\* ------------------------------------------------------------ vocabulary
Terminal == {"executed", "failed"}

Returned(s) == strike[s].pc = "returned"

\* a strike that has been called and has neither returned nor thrown
InProgress(s) == strike[s].pc \in {"navAwait", "settleAwait", "settled"}

\* the step is strike s returning
Returns(s) == strike[s].pc # "returned" /\ strike'[s].pc = "returned"

\* the step is the call executeStrike(newNAV) of strike s
Called(s) == strike[s].pc = "idle" /\ strike'[s].pc # "idle"

\* the step is the settlement of strike s resuming after its await
Resumes(s) == strike[s].pc = "settleAwait" /\ strike'[s].pc = "settled"

\* the step is executeStrike taking up the outcome of its current order
TakesUp(s) == strike[s].pc = "settled" /\ strike'[s] # strike[s]

Range(q) == {q[k] : k \in 1..Len(q)}

\* the deltas the claim gives an executed order at the strike price nav
AumDelta(order, nav) ==
  IF order.orderType = "subscribe" THEN order.amount
  ELSE Sub(Zero, Mul(order.amount, nav))

SharesDelta(order, nav) ==
  IF order.orderType = "subscribe" THEN Div(order.amount, nav)
  ELSE Sub(Zero, order.amount)

\* start plus the AUM deltas of the orders in S
RECURSIVE SumAum(_, _, _, _)
SumAum(S, ords, nav, start) ==
  IF S = {} THEN start
  ELSE LET o == CHOOSE x \in S : TRUE
       IN  SumAum(S \ {o}, ords, nav, Add(start, AumDelta(ords[o], nav)))

\* start plus the share deltas of the orders in S
RECURSIVE SumShares(_, _, _, _)
SumShares(S, ords, nav, start) ==
  IF S = {} THEN start
  ELSE LET o == CHOOSE x \in S : TRUE
       IN  SumShares(S \ {o}, ords, nav, Add(start, SharesDelta(ords[o], nav)))

\* ----------------------------------------------------------------- claims

\* C1: when executeStrike has returned, every order that was pending when it
\* was called is executed or failed; none is left pending (a confirmation
\* timeout ends as failed like any other settlement error).
C1_PendingSettledAtReturn ==
  \A s \in Strikes :
    Returned(s) =>
      \A o \in strike[s].pendingAtCall : orders[o].status \in Terminal

\* a strike has returned, one of the orders pending at its call failed and
\* another was executed
C1_Witness ==
  \E s \in Strikes :
    /\ Returned(s)
    /\ \E o \in strike[s].pendingAtCall : orders[o].status = "failed"
    /\ \E o \in strike[s].pendingAtCall : orders[o].status = "executed"

\* C2: at the return of a strike, totalAUM and totalSharesOutstanding are the
\* values at its call plus the deltas, at the strike's NAV, of the orders of
\* the strike that ended executed.
C2_TotalsAreSumOfExecuted ==
  [][\A s \in Strikes :
       Returns(s) =>
         LET done == {o \in Range(strike'[s].attempted) :
                        orders'[o].status = "executed"}
             nav == strike'[s].newNAV
         IN  /\ totalAUM' = SumAum(done, orders', nav, strike'[s].preAUM)
             /\ totalSharesOutstanding' =
                  SumShares(done, orders', nav, strike'[s].preShares)]_vars

\* C3: every settlement result of a strike carries the strike's newNAV as
\* executionNAV and was priced at newNAV, and the report's nav is newNAV.
C3_OnePricePerStrike ==
  \A s \in Strikes :
    /\ (strike[s].pc = "settled" /\ strike[s].ok) =>
         /\ strike[s].executionNAV = strike[s].newNAV
         /\ strike[s].priceUsed = strike[s].newNAV
    /\ Returned(s) => strike[s].nav = strike[s].newNAV

\* C4: at most one executeStrike is in progress at a time.
C4_OneStrikeAtATime ==
  Cardinality({s \in Strikes : InProgress(s)}) <= 1

\* C5: no order has more than one settlement transaction submitted, and no
\* order has its deltas applied to the totals more than once.
C5_NoDoubleSettlement ==
  \A o \in OrderIds : submitCount[o] <= 1 /\ applyCount[o] <= 1

\* C6: an order's kind and amount never change once it exists, and an
\* executed or failed order keeps its status for ever.
C6_OrderMonotonic ==
  [][\A o \in OrderIds :
       /\ orders[o].status # "absent" =>
            /\ orders'[o].orderType = orders[o].orderType
            /\ orders'[o].amount = orders[o].amount
            /\ orders'[o].status # "absent"
       /\ orders[o].status \in Terminal =>
            orders'[o].status = orders[o].status]_vars

\* C7: a failed settlement does not stop the strike: the orders attempted so
\* far are always the first i orders of the subscription snapshot followed by
\* the redemption snapshot, a strike returns only after attempting all of
\* them, and an order whose transaction was confirmed is marked executed when
\* the strike takes up its result.
C7_AttemptedPrefix ==
  \A s \in Strikes :
    LET all == strike[s].subscriptions \o strike[s].redemptions
    IN  /\ strike[s].pc \in {"settleAwait", "settled", "returned"} =>
             strike[s].attempted = SubSeq(all, 1, strike[s].i)
        /\ Returned(s) => strike[s].attempted = all

C7_ConfirmedEndsExecuted ==
  \A s \in Strikes :
    /\ (Resumes(s) /\ strike[s].resp = "confirmed") => strike'[s].ok
    /\ (TakesUp(s) /\ strike[s].ok) =>
         orders'[CurrentOrder(strike[s])].status = "executed"

C7_FailuresIsolated ==
  []C7_AttemptedPrefix /\ [][C7_ConfirmedEndsExecuted]_vars

\* a strike has returned whose first order failed and whose second order,
\* attempted after it, was executed
C7_Witness ==
  \E s \in Strikes :
    /\ Returned(s)
    /\ Len(strike[s].attempted) >= 2
    /\ strike[s].attempted[1] \notin Range(strike[s].signatures)
    /\ strike[s].attempted[2] \in Range(strike[s].signatures)

\* C8: a settlement that ends in a submission error or a confirmation timeout
\* changes none of currentNAV, totalAUM, totalSharesOutstanding, neither when
\* it throws nor when executeStrike catches it; the order is marked failed;
\* and the strike sends no second transaction for it.
C8_FailureStep ==
  \A s \in Strikes :
    /\ (Resumes(s) /\ strike[s].resp \in {"error", "timeout"}) =>
         /\ UNCHANGED <<currentNAV, totalAUM, totalSharesOutstanding>>
         /\ ~strike'[s].ok
    /\ (TakesUp(s) /\ ~strike[s].ok) =>
         /\ UNCHANGED <<currentNAV, totalAUM, totalSharesOutstanding>>
         /\ orders'[CurrentOrder(strike[s])].status = "failed"
         /\ submitCount'[CurrentOrder(strike[s])]
              = submitCount[CurrentOrder(strike[s])]

C8_NoSecondAttempt ==
  \A s \in Strikes :
    \A j, k \in 1..Len(strike[s].attempted) :
      strike[s].attempted[j] = strike[s].attempted[k] => j = k

C8_FailureLeavesStateUnchanged ==
  []C8_NoSecondAttempt /\ [][C8_FailureStep]_vars

\* a strike has returned after one of its settlements threw: the order is
\* failed, one transaction was sent for it and its deltas were never applied
C8_Witness ==
  \E s \in Strikes :
    /\ Returned(s)
    /\ \E o \in Range(strike[s].attempted) :
         /\ orders[o].status = "failed"
         /\ submitCount[o] = 1
         /\ applyCount[o] = 0

\* C9: the totals change, and an order becomes executed, only in the
\* continuation of a settlement whose transaction the ledger has confirmed.
C9_MutationStep ==
  /\ (\/ totalAUM' # totalAUM
      \/ totalSharesOutstanding' # totalSharesOutstanding
      \/ applyCount' # applyCount) =>
       \E s \in Strikes :
         /\ Resumes(s)
         /\ strike[s].resp = "confirmed"
         /\ applyCount' = [applyCount EXCEPT ![CurrentOrder(strike[s])] = @ + 1]
  /\ \A o \in OrderIds :
       (orders'[o].status = "executed" /\ orders[o].status # "executed") =>
         \E s \in Strikes :
           /\ TakesUp(s)
           /\ CurrentOrder(strike[s]) = o
           /\ strike[s].ok
           /\ applyCount[o] >= 1
  /\ \A s \in Strikes :
       (Resumes(s) /\ strike'[s].ok) => strike[s].resp = "confirmed"

C9_MutationOnlyAfterConfirmation == [][C9_MutationStep]_vars

\* an order was executed after one confirmed transaction
C9_Witness ==
  \E o \in OrderIds :
    orders[o].status = "executed" /\ submitCount[o] = 1 /\ applyCount[o] = 1

\* C10: a call executeStrike(newNAV) with newNAV <= 0 is rejected at once and
\* changes nothing, and such a strike never attempts an order.
C10_RejectStep ==
  \A s \in Strikes :
    (Called(s) /\ Leq(strike'[s].newNAV, Zero)) =>
       /\ strike'[s].pc = "thrown"
       /\ UNCHANGED <<fundVars, pendingOrders, orders, orderCounter>>

C10_NonPositiveNAVRejected ==
  /\ [][C10_RejectStep]_vars
  /\ [](\A s \in Strikes :
          (strike[s].pc # "idle" /\ Leq(strike[s].newNAV, Zero)) =>
             strike[s].attempted = <<>>)

\* C11: a strike whose NAV publication fails aborts with nothing processed
\* and nothing mutated.  Stated for the first call made on a fresh engine,
\* whose pre-call values are those of Init: once that strike has thrown,
\* currentNAV is still 1, lastStrikeTime is still the construction time, no
\* order was attempted and every order pending at the call is still pending.
C11_FailedPublishKeepsState ==
  \A s \in Strikes :
    (strike[s].pc = "thrown" /\ calls = 1) =>
       /\ currentNAV = One
       /\ lastStrikeTime = 0
       /\ strike[s].attempted = <<>>
       /\ \A o \in strike[s].pendingAtCall : orders[o].status = "pending"

\* the part of C11 the code keeps: a strike that has thrown attempted no
\* order and sent no transaction for the orders pending at its call
C11_NoOrderProcessed ==
  \A s \in Strikes :
    strike[s].pc = "thrown" =>
       /\ strike[s].attempted = <<>>
       /\ strike[s].signatures = <<>>

\* C12: queueOrder with amount <= 0 is rejected and changes nothing; so no
\* order object with an amount <= 0 is ever created or put in the queue.
C12_NonPositiveAmountRejected ==
  \A o \in OrderIds :
    orders[o].status # "absent" => ~Leq(orders[o].amount, Zero)

\* C13: order ids are unique, strictly increasing in enqueue order and never
\* reused: the queue lists its ids in strictly increasing order, every id
\* ever given out is at most the counter, and an order that joins the queue
\* carries an id that no order object had before, greater than all of them.
C13_QueueIncreasing ==
  /\ \A j, k \in 1..Len(pendingOrders) :
       j < k => pendingOrders[j] < pendingOrders[k]
  /\ \A o \in OrderIds : orders[o].status # "absent" => o <= orderCounter

C13_FreshIdStep ==
  \A o \in Range(pendingOrders') \ Range(pendingOrders) :
    /\ orders[o].status = "absent"
    /\ orders'[o].status = "pending"
    /\ \A p \in OrderIds : orders[p].status # "absent" => p < o

C13_IdsUniqueIncreasing ==
  []C13_QueueIncreasing /\ [][C13_FreshIdStep]_vars

\* an order was queued after a strike returned and purged an earlier order:
\* the new order has the greater id although it is alone in the queue
C13_Witness ==
  /\ \E s \in Strikes : Returned(s)
  /\ pendingOrders = <<2>>
  /\ orders[1].status \in Terminal
  /\ orders[2].status = "pending"

\* C14: with an empty strike schedule a queueOrder call fails in
\* getNextStrikeTime and leaves the queue and the order-id counter as they
\* were; so while the schedule is empty no step changes either of them.
C14_EmptyScheduleKeepsQueueAndCounter ==
  [][NextStrikeThrows(strikeSchedule, now) =>
       UNCHANGED <<pendingOrders, orderCounter>>]_vars

\* the part of C14 the code keeps: with an empty schedule no order object is
\* ever created and the queue stays empty
C14_EmptyScheduleNoOrder ==
  strikeSchedule = <<>> =>
    /\ pendingOrders = <<>>
    /\ \A o \in OrderIds : orders[o].status = "absent"

\* ------------------------------------------------- the scheduler on its own
\* queueOrder calls on an engine given any schedule, at any time of day: each
\* order records what getNextStrikeTime returned
ScheduleInit ==
  /\ strikeSchedule \in ScheduleInputs
  /\ now \in TimeInputs
  /\ Constructed

ScheduleNext ==
  \E t \in OrderTypes, a \in Amounts :
    orderCounter < MaxQueued /\ QueueOrder(t, a)

ScheduleSpec == ScheduleInit /\ [][ScheduleNext]_vars

Min(S) == CHOOSE x \in S : \A y \in S : x <= y

IsSorted(schedule) ==
  \A j, k \in 1..Len(schedule) : j < k => schedule[j] <= schedule[k]

\* the result the claims describe: the earliest entry later than t today,
\* else the earliest entry tomorrow
EarliestNext(schedule, t) ==
  LET later == {x \in Range(schedule) : x > t}
  IN  IF later # {} THEN <<0, Min(later)>> ELSE <<1, Min(Range(schedule))>>

\* the schedule rearranged by the permutation f of its indices
Rearranged(schedule, f) == [k \in DOMAIN schedule |-> schedule[f[k]]]

\* C15: for a non-empty schedule and any now, getNextStrikeTime returns the
\* earliest entry strictly later than now, today, or else the earliest entry,
\* tomorrow; an entry equal to now counts as past.  Every order carries that
\* strike time.
C15_NextStrikeIsEarliestLater ==
  \A o \in OrderIds :
    orders[o].status # "absent" =>
      orders[o].strikeTime = EarliestNext(strikeSchedule, now)

\* the part of C15 the code keeps: the result is the claimed one whenever
\* the schedule was supplied in ascending order
C15_HoldsForSortedSchedule ==
  IsSorted(strikeSchedule) => C15_NextStrikeIsEarliestLater

\* C16: getNextStrikeTime gives the same result for every permutation of the
\* schedule: the strike time an order carries is the one every rearrangement
\* of the stored schedule yields.
C16_SameForEveryPermutation ==
  \A o \in OrderIds :
    orders[o].status # "absent" =>
      \A f \in Permutations(DOMAIN strikeSchedule) :
        getNextStrikeTime(Rearranged(strikeSchedule, f), now)
          = orders[o].strikeTime

\* ------------------------------------------- strikes called one at a time
\* the engine used as its callers are told to use it: a schedule is set,
\* amounts and NAVs are positive and executeStrike is called only when no
\* other strike is in progress; orders may be queued at any moment
QueueInit ==
  /\ strikeSchedule = <<1, 2>>
  /\ now = 0
  /\ Constructed

QueueNext ==
  \/ \E t \in OrderTypes :
       orderCounter < MaxQueued /\ QueueOrder(t, MaxAmount)
  \/ \E s \in Strikes, n \in NavInputs \ {Zero} :
       (\A u \in Strikes : ~InProgress(u)) /\ ExecuteStrike(s, n)
  \/ \E s \in Strikes, r \in Outcomes : LedgerRespond(s, r)
  \/ \E s \in Strikes : StrikeAfterNAV(s)
  \/ \E s \in Strikes : SettlementResume(s)
  \/ \E s \in Strikes : StrikeContinue(s)

QueueSpec == QueueInit /\ [][QueueNext]_vars

\* C17: within one strike the subscriptions are attempted before any
\* redemption, and the orders of one kind in enqueue order (which, by C13, is
\* the order of their ids); a redemption is attempted only when every
\* subscription of the strike's snapshot has been.
C17_SubscriptionsFirstInOrder ==
  \A s \in Strikes :
    LET a == strike[s].attempted
    IN  /\ \A j, k \in 1..Len(a) :
             j < k =>
               /\ orders[a[j]].orderType = "redeem" =>
                    orders[a[k]].orderType = "redeem"
               /\ orders[a[j]].orderType = orders[a[k]].orderType =>
                    a[j] < a[k]
        /\ (\E k \in 1..Len(a) : orders[a[k]].orderType = "redeem") =>
             Range(strike[s].subscriptions) \subseteq Range(a)

\* a strike has returned that attempted the subscription queued second
\* before the redemptions queued first and third, and those two in order
C17_Witness ==
  \E s \in Strikes :
    /\ Returned(s)
    /\ strike[s].attempted = <<2, 1, 3>>
    /\ orders[2].orderType = "subscribe"
    /\ orders[1].orderType = "redeem"
    /\ orders[3].orderType = "redeem"

\* the orders of the two snapshots of an executeStrike activation
Snapshot(sr) == Range(sr.subscriptions) \cup Range(sr.redemptions)

\* the step is strike s taking its snapshots after the NAV was published
TakesSnapshot(s) ==
  strike[s].pc = "navAwait" /\ strike'[s].pc \in {"settleAwait", "returned"}

\* C18: the orders a strike attempts are fixed by the snapshots it takes
\* before its first settlement: the snapshots hold exactly the orders that
\* are pending in the queue at that moment, taking them leaves the queue as
\* it is, they never change afterwards, an order created later is in no
\* snapshot already taken, and a strike attempts only orders of its snapshots.
C18_SnapshotStep ==
  \A s \in Strikes :
    /\ TakesSnapshot(s) =>
         /\ Snapshot(strike'[s]) =
              {o \in Range(pendingOrders) : orders[o].status = "pending"}
         /\ strike'[s].pc = "settleAwait" => pendingOrders' = pendingOrders
    /\ strike[s].pc \in {"settleAwait", "settled", "returned"} =>
         /\ strike'[s].subscriptions = strike[s].subscriptions
         /\ strike'[s].redemptions = strike[s].redemptions
         /\ \A o \in OrderIds :
              (orders[o].status = "absent" /\ orders'[o].status # "absent") =>
                 /\ o \notin Snapshot(strike'[s])
                 /\ o \notin Range(strike'[s].attempted)

C18_AttemptsWithinSnapshot ==
  \A s \in Strikes : Range(strike[s].attempted) \subseteq Snapshot(strike[s])

C18_LateOrderNotSettled ==
  []C18_AttemptsWithinSnapshot /\ [][C18_SnapshotStep]_vars

\* a strike has settled the one order of its snapshot and is about to return,
\* while a second order, queued after the snapshot was taken, waits in the
\* queue, pending and in no snapshot
C18_Witness ==
  \E s \in Strikes :
    /\ strike[s].pc = "settled"
    /\ strike[s].ok
    /\ strike[s].attempted = <<1>>
    /\ Snapshot(strike[s]) = {1}
    /\ pendingOrders = <<1, 2>>
    /\ orders[2].status = "pending"
    /\ \A u \in Strikes \ {s} : strike[u].pc = "idle"

\* the place of order o in the queue q
Pos(q, o) == CHOOSE k \in 1..Len(q) : q[k] = o

\* C19: when executeStrike returns, the queue holds no executed or failed
\* order, every order of the queue that is pending is still in it, nothing
\* else is, and the orders kept are in the relative order they had.
C19_PurgeStep ==
  \A s \in Strikes :
    Returns(s) =>
      /\ \A k \in 1..Len(pendingOrders') :
           orders'[pendingOrders'[k]].status = "pending"
      /\ \A o \in Range(pendingOrders) :
           orders'[o].status = "pending" => o \in Range(pendingOrders')
      /\ Range(pendingOrders') \subseteq Range(pendingOrders)
      /\ \A j, k \in 1..Len(pendingOrders') :
           j < k => Pos(pendingOrders, pendingOrders'[j])
                      < Pos(pendingOrders, pendingOrders'[k])

C19_QueuePurgedAtReturn == [][C19_PurgeStep]_vars

\* a strike is about to return: the one order of its snapshot has failed and
\* is still first in the queue, followed by two orders queued during the
\* strike, which the purge has to keep in this order
C19_Witness ==
  \E s \in Strikes :
    /\ strike[s].pc = "settled"
    /\ ~strike[s].ok
    /\ ~HasNext(strike[s])
    /\ strike[s].attempted = <<1>>
    /\ pendingOrders = <<1, 2, 3>>
    /\ orders[2].status = "pending"
    /\ orders[3].status = "pending"

\* the orders of the settlements c, in order
OrdersOf(c) == [k \in 1..Len(c) |-> c[k].order]

\* how many of the settlements c are of orders of the given type
CountOf(c, ords, type) ==
  Cardinality({k \in 1..Len(c) : ords[c[k].order].orderType = type})

\* the sum, from the k-th on, of the order amounts of the settlements c of
\* the given type
RECURSIVE SumAmounts(_, _, _, _)
SumAmounts(c, ords, type, k) ==
  IF k > Len(c) THEN Zero
  ELSE Add(IF ords[c[k].order].orderType = type
           THEN ords[c[k].order].amount ELSE Zero,
           SumAmounts(c, ords, type, k + 1))

\* the same sum of their computed legs
RECURSIVE SumLegs(_, _, _, _)
SumLegs(c, ords, type, k) ==
  IF k > Len(c) THEN Zero
  ELSE Add(IF ords[c[k].order].orderType = type THEN c[k].leg ELSE Zero,
           SumLegs(c, ords, type, k + 1))

\* C20: the report of a strike describes exactly the settlements of that
\* strike that the ledger confirmed: signatures lists one reference for each
\* of them, in order, and none for an order whose settlement failed; the two
\* counters count them by kind; the four totals are the sums of their two
\* legs.
C20_ReportMatchesConfirmed ==
  \A s \in Strikes :
    Returned(s) =>
      LET c == strike[s].confirmed
          r == strike[s]
      IN  /\ r.signatures = OrdersOf(c)
          /\ \A j, k \in 1..Len(r.signatures) :
               r.signatures[j] = r.signatures[k] => j = k
          /\ Range(r.signatures) \subseteq Range(r.attempted)
          /\ r.subscriptionsProcessed = CountOf(c, orders, "subscribe")
          /\ r.redemptionsProcessed = CountOf(c, orders, "redeem")
          /\ r.totalUSDCSubscribed = SumAmounts(c, orders, "subscribe", 1)
          /\ r.totalSharesMinted = SumLegs(c, orders, "subscribe", 1)
          /\ r.totalSharesRedeemed = SumAmounts(c, orders, "redeem", 1)
          /\ r.totalUSDCPaid = SumLegs(c, orders, "redeem", 1)

\* a strike at NAV 3 has returned whose first settlement failed and whose
\* second, a redemption of 1 share paying 3 USDC, was confirmed
C20_Witness ==
  \E s \in Strikes :
    /\ Returned(s)
    /\ Len(strike[s].attempted) = 2
    /\ strike[s].signatures = <<strike[s].attempted[2]>>
    /\ strike[s].redemptionsProcessed = 1
    /\ strike[s].subscriptionsProcessed = 0
    /\ strike[s].totalSharesRedeemed = One
    /\ strike[s].totalUSDCPaid = <<3, 1>>

\* ----------------------------------------------------- the books at rest
\* no executeStrike and no updateNAV call is in progress
Quiescent == (\A s \in Strikes : ~InProgress(s)) /\ navCalls = 0

\* the strikes that have returned their report
Completed == {s \in Strikes : Returned(s)}

\* the one that returned last: strikes are called in the order of Strikes
LastCompleted == CHOOSE s \in Completed : \A u \in Completed : u <= s

\* what the settlements c the ledger confirmed add to totalAUM and to
\* totalSharesOutstanding
NetAum(c, ords) ==
  Sub(SumAmounts(c, ords, "subscribe", 1), SumLegs(c, ords, "redeem", 1))

NetShares(c, ords) ==
  Sub(SumLegs(c, ords, "subscribe", 1), SumAmounts(c, ords, "redeem", 1))

\* the sums of the above over the strikes from s on
RECURSIVE HistoricalAum(_)
HistoricalAum(s) ==
  IF s \notin Strikes THEN Zero
  ELSE Add(NetAum(strike[s].confirmed, orders), HistoricalAum(s + 1))

RECURSIVE HistoricalShares(_)
HistoricalShares(s) ==
  IF s \notin Strikes THEN Zero
  ELSE Add(NetShares(strike[s].confirmed, orders), HistoricalShares(s + 1))

\* C21: whenever no strike is in progress, totalAUM and
\* totalSharesOutstanding are the sums of the deltas of all the settlements
\* executed so far (this part holds) ...
C21_TotalsAreHistoricalSums ==
  Quiescent =>
    /\ totalAUM = HistoricalAum(1)
    /\ totalSharesOutstanding = HistoricalShares(1)

\* C21: ... and currentNAV is the NAV fixed by the strike that completed
\* last, or the initial NAV if no strike has completed.
C21_BooksAtRest ==
  Quiescent =>
    /\ currentNAV = IF Completed = {} THEN One
                    ELSE strike[LastCompleted].newNAV
    /\ totalAUM = HistoricalAum(1)
    /\ totalSharesOutstanding = HistoricalShares(1)

\* C22: after every strike totalAUM >= 0 and totalSharesOutstanding >= 0,
\* whatever was subscribed and redeemed at whatever positive NAVs.  Stated
\* for the strikes that find both totals non-negative and redeem no more
\* shares than are outstanding: such a strike leaves totalAUM >= 0 as well.
C22_ReturnStep ==
  \A s \in Strikes :
    (/\ Returns(s)
     /\ Leq(Zero, strike[s].preAUM)
     /\ Leq(Zero, strike[s].preShares)
     /\ Leq(Zero, totalSharesOutstanding'))
    => Leq(Zero, totalAUM')

C22_TotalsNeverNegative == [][C22_ReturnStep]_vars

\* an integer amount of the ledger, in tokens
Tokens(units) == Num(units, LedgerScale)

\* C23: for every executed order, what is added to or taken from the two
\* totals, and what the result reports to executeStrike, are the amounts
\* its transaction submitted to the ledger, i.e. the two legs truncated to 6
\* fractional digits.
C23_LedgerAmountsStep ==
  \A s \in Strikes :
    LET sr == strike[s]
        amount == Tokens(sr.amountUnits)
        leg == Tokens(sr.legUnits)
    IN  /\ (Resumes(s) /\ strike'[s].ok) =>
             IF InSubscriptions(sr)
             THEN /\ totalAUM' = Add(totalAUM, amount)
                  /\ totalSharesOutstanding' = Add(totalSharesOutstanding, leg)
             ELSE /\ totalSharesOutstanding' = Sub(totalSharesOutstanding, amount)
                  /\ totalAUM' = Sub(totalAUM, leg)
        /\ (TakesUp(s) /\ sr.ok) =>
             IF InSubscriptions(sr)
             THEN /\ strike'[s].totalUSDCSubscribed
                       = Add(sr.totalUSDCSubscribed, amount)
                  /\ strike'[s].totalSharesMinted
                       = Add(sr.totalSharesMinted, leg)
             ELSE /\ strike'[s].totalSharesRedeemed
                       = Add(sr.totalSharesRedeemed, amount)
                  /\ strike'[s].totalUSDCPaid = Add(sr.totalUSDCPaid, leg)

C23_BooksCarryLedgerAmounts == [][C23_LedgerAmountsStep]_vars

\* C24: when a strike completes, the metadata it published (nothing else
\* publishes while strikes are called one at a time) shows the engine's
\* state after the strike's settlements: the published currentNAV and
\* lastStrikeTime are the in-memory ones (this part holds) ...
C24_PublishedNAVAndTimeStep ==
  \A s \in Strikes :
    Returns(s) =>
      /\ strike[s].update.currentNAV = ToFixed(currentNAV', 6)
      /\ strike[s].update.lastStrikeTime = lastStrikeTime'

C24_PublishedNAVAndTime == [][C24_PublishedNAVAndTimeStep]_vars

\* C24: ... and so is the published totalAUM.
C24_PublishedStep ==
  \A s \in Strikes :
    Returns(s) =>
      strike[s].update = MetadataUpdate(currentNAV', lastStrikeTime', totalAUM')

C24_PublishedMatchesState == [][C24_PublishedStep]_vars

\* ------------------------------------------------------------ termination
\* strikes called one at a time over a queue of at most MaxOrders orders,
\* with the scheduling the code relies on: a continuation whose promise is
\* settled is run by the event loop, and the ledger answers every
\* transaction it was sent (with a confirmation, an error or a timeout)
FairNext ==
  \/ \E t \in OrderTypes :
       orderCounter < MaxOrders /\ QueueOrder(t, MaxAmount)
  \/ \E s \in Strikes, n \in NavInputs \ {Zero} :
       (\A u \in Strikes : ~InProgress(u)) /\ ExecuteStrike(s, n)
  \/ \E s \in Strikes, r \in Outcomes : LedgerRespond(s, r)
  \/ \E s \in Strikes : StrikeAfterNAV(s)
  \/ \E s \in Strikes : SettlementResume(s)
  \/ \E s \in Strikes : StrikeContinue(s)

FairSpec ==
  /\ QueueInit
  /\ [][FairNext]_vars
  /\ \A s \in Strikes :
       /\ WF_vars(\E r \in Outcomes : LedgerRespond(s, r))
       /\ WF_vars(StrikeAfterNAV(s))
       /\ WF_vars(SettlementResume(s))
       /\ WF_vars(StrikeContinue(s))

\* the NAV of strike s has been published and confirmed and the strike has
\* not returned yet
NAVFixed(s) ==
  \/ strike[s].pc = "navAwait" /\ Resolves(strike[s].resp)
  \/ strike[s].pc \in {"settleAwait", "settled"}

\* C25: once its NAV publication is confirmed, executeStrike returns its
\* report, whichever of its orders fail, given that the ledger answers every
\* transaction.
C25_StrikeReturns ==
  \A s \in Strikes : NAVFixed(s) ~> Returned(s)

\* a strike has returned its report although every one of its two orders
\* failed
C25_Witness ==
  \E s \in Strikes :
    /\ Returned(s)
    /\ Len(strike[s].attempted) = 2
    /\ strike[s].signatures = <<>>
    /\ \A o \in Range(strike[s].attempted) : orders[o].status = "failed"

\* ------------------------------------------------------- the demo's calls
\* the orders the demo queues, in its order, and the NAVs of its strikes
DemoOrders ==
  <<[orderType |-> "subscribe", amount |-> 250],
    [orderType |-> "subscribe", amount |-> 150],
    [orderType |-> "redeem", amount |-> 50]>>

DemoNAVs == <<One, <<51, 50>>>>

\* the demo's calls made against a fresh engine, each strike when no other
\* is in progress; when the orders are queued relative to the strikes, and
\* what the ledger answers and when the queue is read, is left open
DemoNext ==
  \/ /\ orderCounter < Len(DemoOrders)
     /\ QueueOrder(DemoOrders[orderCounter + 1].orderType,
                   DemoOrders[orderCounter + 1].amount)
  \/ \E s \in Strikes :
       /\ s <= Len(DemoNAVs)
       /\ \A u \in Strikes : ~InProgress(u)
       /\ ExecuteStrike(s, DemoNAVs[s])
  \/ \E s \in Strikes, r \in Outcomes : LedgerRespond(s, r)
  \/ \E s \in Strikes : StrikeAfterNAV(s)
  \/ \E s \in Strikes : SettlementResume(s)
  \/ \E s \in Strikes : StrikeContinue(s)
  \/ GetPendingOrders

DemoSpec == QueueInit /\ [][DemoNext]_vars

\* the first strike has returned after executing the two subscriptions
FirstStrikeDone ==
  Returned(1) /\ strike[1].signatures = <<1, 2>>

\* and the second after executing the redemption
SecondStrikeDone ==
  FirstStrikeDone /\ Returned(2) /\ strike[2].signatures = <<3>>

\* C26: with initial NAV 1.0, subscriptions of 250 and 150 settled by a
\* strike at NAV 1.0 mint 250 and 150 shares and leave totalAUM = 400 and
\* totalSharesOutstanding = 400; a redemption of 50 shares settled by a
\* following strike at NAV 1.02 pays 51.00 and leaves totalAUM = 349 and
\* totalSharesOutstanding = 350.
C26_DemoBooks ==
  /\ FirstStrikeDone =>
       /\ strike[1].confirmed[1].leg = <<250, 1>>
       /\ strike[1].confirmed[1].legUnits = 250 * LedgerScale
       /\ strike[1].confirmed[2].leg = <<150, 1>>
       /\ strike[1].confirmed[2].legUnits = 150 * LedgerScale
       /\ strike[1].totalUSDCSubscribed = <<400, 1>>
       /\ strike[1].totalSharesMinted = <<400, 1>>
  /\ (FirstStrikeDone /\ strike[2].pc \in {"idle", "navAwait", "thrown"}) =>
       /\ totalAUM = <<400, 1>>
       /\ totalSharesOutstanding = <<400, 1>>
  /\ SecondStrikeDone =>
       /\ strike[2].confirmed[1].leg = <<51, 1>>
       /\ strike[2].confirmed[1].legUnits = 51 * LedgerScale
       /\ strike[2].totalSharesRedeemed = <<50, 1>>
       /\ strike[2].totalUSDCPaid = <<51, 1>>
       /\ totalAUM = <<349, 1>>
       /\ totalSharesOutstanding = <<350, 1>>

\* both strikes of the scenario have returned, the second at NAV 1.02 after
\* paying 51 USDC for order 3
C26_Witness ==
  /\ SecondStrikeDone
  /\ strike[1].nav = One
  /\ strike[2].nav = <<51, 50>>
  /\ strike[2].attempted = <<3>>
  /\ totalAUM = <<349, 1>>

\* the step is a queueOrder call
Queues == orderCounter' # orderCounter

\* the step is a getPendingOrders call (one that returns something new)
ReadsQueue == pendingView' # pendingView

\* C27: queueOrder and getPendingOrders leave currentNAV, totalAUM,
\* totalSharesOutstanding, strikeSchedule and lastStrikeTime as they are.
C27_QueueStep ==
  (Queues \/ ReadsQueue) =>
    UNCHANGED <<currentNAV, totalAUM, totalSharesOutstanding, strikeSchedule,
                lastStrikeTime>>

C27_QueueOperationsKeepTheBooks == [][C27_QueueStep]_vars

\* after the first strike left 400 USDC and 400 shares in the books, the
\* redemption was queued and the queue was read: the books are as they were
C27_Witness ==
  /\ FirstStrikeDone
  /\ strike[2].pc = "idle"
  /\ pendingOrders = <<3>>
  /\ pendingView = <<3>>
  /\ totalAUM = <<400, 1>>
  /\ totalSharesOutstanding = <<400, 1>>
  /\ currentNAV = One
  /\ lastStrikeTime = 1

\* the orders whose settlement failed in strike s, once s has returned
FailedIn(s) ==
  IF Returned(s)
  THEN Range(strike[s].attempted) \ Range(strike[s].signatures)
  ELSE {}

\* C28: an order whose settlement failed in a strike ends failed, is not in
\* the queue once that strike has returned, is in no other strike's
\* snapshot and is attempted by no other strike; it stays failed for good.
C28_FailedOrdersDropped ==
  \A s \in Strikes :
    \A o \in FailedIn(s) :
      /\ orders[o].status = "failed"
      /\ o \notin Range(pendingOrders)
      /\ \A u \in Strikes \ {s} :
           /\ o \notin Snapshot(strike[u])
           /\ o \notin Range(strike[u].attempted)

C28_FailedStaysStep ==
  \A o \in OrderIds :
    orders[o].status = "failed" => orders'[o] = orders[o]

C29_BothLegsStep ==
  /\ \A s \in Strikes :
       Resumes(s) =>
         LET sr == strike[s]
             o == CurrentOrder(sr)
             c == sr.confirmed
             settled == /\ sr.resp = "confirmed"
                        /\ c # <<>>
                        /\ c[Len(c)].order = o
                        /\ c[Len(c)].amountUnits > 0
                        /\ c[Len(c)].legUnits > 0
         IN  IF settled
             THEN /\ totalAUM' = Add(totalAUM, AumDelta(orders[o], sr.priceUsed))
                  /\ totalSharesOutstanding'
                       = Add(totalSharesOutstanding,
                             SharesDelta(orders[o], sr.priceUsed))
                  /\ totalAUM' # totalAUM
                  /\ totalSharesOutstanding' # totalSharesOutstanding
                  /\ applyCount'[o] = applyCount[o] + 1
             ELSE /\ sr.resp # "confirmed"
                  /\ UNCHANGED <<totalAUM, totalSharesOutstanding, applyCount>>
  /\ (\A s \in Strikes : ~Resumes(s)) =>
       UNCHANGED <<totalAUM, totalSharesOutstanding, applyCount>>

C29_LegsAppliedTogether == [][C29_BothLegsStep]_vars

\* a redemption at NAV 3 has been confirmed and booked: one share less and
\* 3 USDC less than the subscriptions before it had left
C29_Witness ==
  \E s \in Strikes :
    /\ strike[s].pc = "settled"
    /\ strike[s].ok
    /\ orders[CurrentOrder(strike[s])].orderType = "redeem"
    /\ strike[s].priceUsed = <<3, 1>>
    /\ totalAUM = Sub(strike[s].preAUM, <<3, 1>>)
    /\ totalSharesOutstanding = Sub(strike[s].preShares, One)
    /\ Len(strike[s].attempted) = 1

\* the phase an executeStrike activation is in: 0 Scheduled (not called),
\* 1 NAVFixing (awaiting updateNAV), 2 Settling (in the two loops),
\* 3 Reporting and Complete (purged and returned, which is one step), and
\* 4 for a strike rejected at NAV fixing
Phase(sr) ==
  CASE sr.pc = "idle" -> 0
    [] sr.pc = "navAwait" -> 1
    [] sr.pc \in {"settleAwait", "settled"} -> 2
    [] sr.pc = "returned" -> 3
    [] sr.pc = "thrown" -> 4

\* C30: a strike goes through its phases in order: it never goes back, it
\* leaves NAV fixing for settling or reporting only when the ledger has
\* confirmed the publication of its NAV (so the first settlement is
\* submitted after that), it is rejected only from NAV fixing, and the
\* queue is purged only by the step that returns the report, when every
\* order of the strike's snapshots has been attempted and taken up.
C30_PhaseStep ==
  /\ \A s \in Strikes :
       LET sr == strike[s]
           sr2 == strike'[s]
       IN  /\ Phase(sr2) >= Phase(sr)
           /\ Phase(sr2) # Phase(sr) =>
                \/ Phase(sr) = 0 /\ Phase(sr2) = 1
                \/ /\ Phase(sr) = 1
                   /\ IF sr.resp = "confirmed"
                      THEN /\ Phase(sr2) \in {2, 3}
                           /\ sr.update.currentNAV = ToFixed(sr.newNAV, 6)
                      ELSE Phase(sr2) = 4
                \/ Phase(sr) = 2 /\ Phase(sr2) = 3
           /\ sr2.attempted # sr.attempted =>
                /\ Phase(sr2) = 2
                /\ sr.attempted = <<>> => Phase(sr) = 1 /\ sr.resp = "confirmed"
           /\ Phase(sr) < 2 => sr.attempted = <<>>
           /\ Returns(s) =>
                /\ Range(sr2.attempted) = Snapshot(sr2)
                /\ \A o \in Snapshot(sr2) : orders'[o].status \in Terminal
  /\ submitCount' # submitCount =>
       \E s \in Strikes :
         strike'[s].attempted # strike[s].attempted /\ Phase(strike'[s]) = 2
  /\ pendingOrders' # pendingOrders =>
       \/ Queues
       \/ \E s \in Strikes : Returns(s)

C30_PhasesInOrder == [][C30_PhaseStep]_vars

\* a strike has returned after attempting both orders of its snapshot; the
\* order queued while it was settling is what the purge left in the queue
C30_Witness ==
  \E s \in Strikes :
    /\ Returned(s)
    /\ strike[s].attempted = <<1, 2>>
    /\ Snapshot(strike[s]) = {1, 2}
    /\ pendingOrders = <<3>>
    /\ \A u \in Strikes \ {s} : strike[u].pc = "idle"

\* ------------------------------------------------------ the purge, twice
\* no order has been queued since executeStrike call s was made: every
\* order there is was pending at that call or had been attempted by an
\* earlier strike
NoEnqueueSince(s) ==
  \A o \in OrderIds :
    orders[o].status # "absent" =>
      \/ o \in strike[s].pendingAtCall
      \/ \E t \in Strikes : t < s /\ o \in Range(strike[t].attempted)

\* C31: the purge applied to a purged queue changes nothing, at every queue
\* the engine can hold and in particular at the queue a strike leaves
\* behind; and once a strike has returned, as long as no order has been
\* queued since its call, no step of a following strike changes the queue,
\* so that the queue after the second strike is the queue after the first.
C31_PurgeTwice ==
  PurgeTerminal(PurgeTerminal(pendingOrders, orders), orders)
    = PurgeTerminal(pendingOrders, orders)

C31_QuietStrikeStep ==
  \A s \in Strikes :
    /\ Returns(s) => PurgeTerminal(pendingOrders', orders') = pendingOrders'
    /\ (Returned(s) /\ NoEnqueueSince(s)') => pendingOrders' = pendingOrders

C31_PurgeIdempotent == []C31_PurgeTwice /\ [][C31_QuietStrikeStep]_vars

\* the first strike attempted two orders, one executed and one failed, and
\* purged them; a second strike, called with nothing queued since, has
\* returned too, and the queue is as the first strike left it
C31_Witness ==
  /\ Returned(1)
  /\ Len(strike[1].attempted) = 2
  /\ Len(strike[1].signatures) = 1
  /\ Returned(2)
  /\ strike[2].attempted = <<>>
  /\ NoEnqueueSince(1)
  /\ pendingOrders = <<>>

\* the strikes that have attempted order o
AttemptedBy(o) == {s \in Strikes : o \in Range(strike[s].attempted)}

\* C32: every order that was queued is either in the queue, once, as a
\* pending order, or is executed or failed after the attempt of exactly one
\* strike; and an order leaves the queue only when a strike has attempted
\* it.
C32_OrderAccounted ==
  \A o \in OrderIds :
    orders[o].status # "absent" =>
      \/ /\ orders[o].status = "pending"
         /\ Cardinality({k \in 1..Len(pendingOrders) : pendingOrders[k] = o}) = 1
         /\ Cardinality(AttemptedBy(o)) <= 1
      \/ /\ orders[o].status \in Terminal
         /\ Cardinality(AttemptedBy(o)) = 1

C32_LeavesQueueStep ==
  \A o \in Range(pendingOrders) \ Range(pendingOrders') :
    /\ AttemptedBy(o) # {}
    /\ orders'[o].status \in Terminal

C32_NoOrderLost == []C32_OrderAccounted /\ [][C32_LeavesQueueStep]_vars

\* ---------------------------------------------------------------------------
\* C33: getPendingOrders returns, in enqueue order, only orders whose status is
\* pending, at every moment it can be called (between two settlements of an
\* in-flight strike included), and the returned list is the caller's own: the
\* engine's queue is not changed by the call.
C33_ReadStep ==
  ReadsQueue =>
    /\ \A k \in 1..Len(pendingView') : orders'[pendingView'[k]].status = "pending"
    /\ \A j, k \in 1..Len(pendingView') : j < k => pendingView'[j] < pendingView'[k]
    /\ pendingOrders' = pendingOrders

C33_OnlyPendingReturned == [][C33_ReadStep]_vars

\* ---------------------------------------------------------------------------
\* C34: a direct updateNAV call (a NAV update with no order processing) changes
\* only currentNAV and lastStrikeTime: the order queue, every order's status,
\* totalAUM and totalSharesOutstanding are as they were, both when the call
\* assigns the NAV and when it returns after the ledger's answer.
DirectNAVStep == navCalls' # navCalls

C34_UpdateNAVStep ==
  DirectNAVStep =>
    /\ pendingOrders' = pendingOrders
    /\ orders' = orders
    /\ totalAUM' = totalAUM
    /\ totalSharesOutstanding' = totalSharesOutstanding
    /\ strike' = strike
    /\ navCalls' < navCalls => (currentNAV' = currentNAV /\ lastStrikeTime' = lastStrikeTime)

C34_UpdateNAVFrame == [][C34_UpdateNAVStep]_vars

C34_Witness ==
  /\ navCalls > 0
  /\ Returned(1)
  /\ currentNAV # strike[1].newNAV
  /\ totalAUM # Zero
  /\ pendingOrders # <<>>

\* ---------------------------------------------------------------------------
\* The Solana Kit engine (src-kit/nav-strike-engine.ts).  Its fields have the
\* names of the web3.js engine's fields, so that its operations are actions
\* on the same variables; each is translated from the Kit source.

\* getNextStrikeTime of the Kit engine
KitNextStrikeThrows(schedule, t) ==
  (\A k \in 1..Len(schedule) : ~(schedule[k] > t)) /\ Len(schedule) = 0

KitGetNextStrikeTime(schedule, t) ==
  LET later == {k \in 1..Len(schedule) : schedule[k] > t}
  IN  IF later # {}
      THEN <<0, schedule[CHOOSE k \in later : \A j \in later : k <= j]>>
      ELSE <<1, schedule[1]>>

\* the two filters of the Kit executeStrike
KitPendingOfType(queue, ords, type) ==
  SelectSeq(queue, LAMBDA o : ords[o].orderType = type
                              /\ ords[o].status = "pending")

\* "Clear executed orders" of the Kit executeStrike
KitPurge(queue, ords) ==
  SelectSeq(queue, LAMBDA o : ords[o].status = "pending")

\* Kit processSubscription: sharesToMint = usdcAmount / this.currentNAV
KitSharesToMint(usdcAmount, nav) == Div(usdcAmount, nav)

\* mutant: the Kit redemption divides by the NAV
KitUsdcToPayDivides(shareAmount, nav) == Div(shareAmount, nav)

\* Kit processRedemption: usdcToPay = shareAmount * this.currentNAV
KitUsdcToPay(shareAmount, nav) == Mul(shareAmount, nav)

\* BigInt(Math.floor(x * 1e6)) throws for a non-finite x, and the
\* instruction's u64 amount cannot hold a negative one
KitEncodable(x) == IsFinite(x) /\ FloorUnits(x) >= 0

\* "await this.client.sendAndConfirmTransaction(...)" resolves on a
\* confirmation and throws otherwise
KitResolves(resp) == resp = "confirmed"

\* the metadata fields the Kit updateNAV writes
KitMetadataUpdate(nav, time, aum) ==
  [currentNAV |-> ToFixed(nav, 6), lastStrikeTime |-> time,
   totalAUM |-> ToFixed(aum, 2)]

\* the for..of loops of the Kit executeStrike: subscriptions, then redemptions
KitOrderAt(sr, k) ==
  IF k <= Len(sr.subscriptions) THEN sr.subscriptions[k]
  ELSE sr.redemptions[k - Len(sr.subscriptions)]

KitHasNext(sr) == sr.i < Len(sr.subscriptions) + Len(sr.redemptions)

\* Kit processSubscription / processRedemption up to the await of
\* sendAndConfirmTransaction
KitBegin(sr, nav, ords) ==
  LET k == sr.i + 1
      o == KitOrderAt(sr, k)
      isSub == k <= Len(sr.subscriptions)
      amount == ords[o].amount
      leg == IF isSub THEN KitSharesToMint(amount, nav)
             ELSE KitUsdcToPay(amount, nav)
      sendable == KitEncodable(amount) /\ KitEncodable(leg)
  IN  [sr EXCEPT !.pc = "settleAwait", !.i = k, !.legAmount = leg,
                 !.priceUsed = nav,
                 !.resp = IF sendable THEN "none" ELSE "error",
                 !.sent = sendable,
                 !.amountUnits = IF sendable THEN FloorUnits(amount) ELSE 0,
                 !.legUnits = IF sendable THEN FloorUnits(leg) ELSE 0,
                 !.attempted = Append(@, o)]

\* the return statement of the Kit executeStrike
KitFinish(sr, nav) ==
  [sr EXCEPT !.pc = "returned", !.nav = nav, !.resp = "none", !.sent = FALSE,
             !.ok = FALSE, !.legAmount = Zero, !.priceUsed = Zero,
             !.amountUnits = 0, !.legUnits = 0,
             !.executionNAV = Zero]

\* the Kit executeStrike between two awaits: the next order, or the purge
\* and the return
KitProceed(s, sr, ords) ==
  IF KitHasNext(sr)
  THEN \E sr2 \in {KitBegin(sr, currentNAV, ords)} :
         /\ strike' = [strike EXCEPT ![s] = sr2]
         /\ submitCount' = IF sr2.sent
                           THEN [submitCount EXCEPT ![KitOrderAt(sr2, sr2.i)] = @ + 1]
                           ELSE submitCount
         /\ pendingOrders' = pendingOrders
  ELSE /\ strike' = [strike EXCEPT ![s] = KitFinish(sr, currentNAV)]
       /\ submitCount' = submitCount
       /\ pendingOrders' = KitPurge(pendingOrders, ords)

\* Kit queueOrder(investor, orderType, amount)
KitQueueOrder(orderType, amount) ==
  /\ orderCounter' = orderCounter + 1
  /\ IF KitNextStrikeThrows(strikeSchedule, now)
     THEN UNCHANGED <<orders, pendingOrders>>
     ELSE /\ orders' = [orders EXCEPT ![orderCounter + 1] =
                          [orderType |-> orderType, amount |-> Num(amount, 1),
                           strikeTime |-> KitGetNextStrikeTime(strikeSchedule, now),
                           status |-> "pending"]]
          /\ pendingOrders' = Append(pendingOrders, orderCounter + 1)
  /\ UNCHANGED <<fundVars, envVars, strike, navCalls, calls,
                 submitCount, applyCount, pendingView>>

\* Kit executeStrike(fundMint, usdcMint, newNAV) up to the await of the
\* metadata transaction inside updateNAV
KitExecuteStrike(s, newNAV) ==
  /\ strike[s].pc = "idle"
  /\ \A t \in Strikes : t < s => strike[t].pc # "idle"
  /\ calls < MaxCalls
  /\ calls' = calls + 1
  /\ currentNAV' = newNAV
  /\ lastStrikeTime' = lastStrikeTime + 1
  /\ strike' = [strike EXCEPT ![s] =
       [@ EXCEPT !.pc = "navAwait", !.newNAV = newNAV, !.resp = "none",
                 !.update = KitMetadataUpdate(newNAV, lastStrikeTime + 1, totalAUM),
                 !.pendingAtCall = {o \in OrderIds : orders[o].status = "pending"},
                 !.preAUM = totalAUM,
                 !.preShares = totalSharesOutstanding]]
  /\ UNCHANGED <<totalAUM, totalSharesOutstanding, envVars,
                 pendingOrders, orderCounter, orders, navCalls,
                 submitCount, applyCount, pendingView>>

\* the Kit executeStrike resumes after "await this.updateNAV"
KitStrikeAfterNAV(s) ==
  /\ strike[s].pc = "navAwait"
  /\ strike[s].resp # "none"
  /\ IF KitResolves(strike[s].resp)
     THEN KitProceed(s,
            [strike[s] EXCEPT
               !.subscriptions = KitPendingOfType(pendingOrders, orders, "subscribe"),
               !.redemptions = KitPendingOfType(pendingOrders, orders, "redeem"),
               !.i = 0],
            orders)
     ELSE /\ strike' = [strike EXCEPT ![s] =
                    [@ EXCEPT !.pc = "thrown", !.resp = "none"]]
          /\ UNCHANGED <<pendingOrders, submitCount>>
  /\ UNCHANGED <<fundVars, envVars, orderCounter, orders,
                 navCalls, calls, applyCount, pendingView>>

\* Kit processSubscription / processRedemption after the await of
\* sendAndConfirmTransaction: "Update fund state" and the result, or a throw
KitSettlementResume(s) ==
  /\ strike[s].pc = "settleAwait"
  /\ strike[s].resp # "none"
  /\ \E sr \in {strike[s]} : \E o \in {KitOrderAt(sr, sr.i)} :
       IF KitResolves(sr.resp)
       THEN /\ IF sr.i <= Len(sr.subscriptions)
               THEN /\ totalAUM' = Add(totalAUM, orders[o].amount)
                    /\ totalSharesOutstanding' =
                         Add(totalSharesOutstanding, sr.legAmount)
               ELSE /\ totalAUM' = Sub(totalAUM, sr.legAmount)
                    /\ totalSharesOutstanding' =
                         Sub(totalSharesOutstanding, orders[o].amount)
            /\ applyCount' = [applyCount EXCEPT ![o] = @ + 1]
            /\ strike' = [strike EXCEPT ![s] =
                 [@ EXCEPT !.pc = "settled", !.ok = TRUE, !.resp = "none",
                           !.executionNAV = currentNAV]]
       ELSE /\ strike' = [strike EXCEPT ![s] =
                 [@ EXCEPT !.pc = "settled", !.ok = FALSE, !.resp = "none"]]
            /\ UNCHANGED <<totalAUM, totalSharesOutstanding, applyCount>>
  /\ UNCHANGED <<currentNAV, lastStrikeTime, envVars, pendingOrders,
                 orderCounter, orders, navCalls, calls, submitCount, pendingView>>

\* the try / catch of the Kit executeStrike around one settlement
KitTakenUp(sr, o, amount) ==
  IF ~sr.ok THEN sr
  ELSE IF sr.i <= Len(sr.subscriptions)
  THEN [sr EXCEPT !.signatures = Append(@, o),
                  !.totalUSDCSubscribed = Add(@, amount),
                  !.totalSharesMinted = Add(@, sr.legAmount),
                  !.subscriptionsProcessed = @ + 1]
  ELSE [sr EXCEPT !.signatures = Append(@, o),
                  !.totalSharesRedeemed = Add(@, amount),
                  !.totalUSDCPaid = Add(@, sr.legAmount),
                  !.redemptionsProcessed = @ + 1]

\* the Kit executeStrike resumes after "await this.processSubscription" or
\* "await this.processRedemption"
KitStrikeContinue(s) ==
  /\ strike[s].pc = "settled"
  /\ \E sr \in {strike[s]} : \E o \in {KitOrderAt(sr, sr.i)} :
     \E ords \in {[orders EXCEPT ![o].status =
                     IF sr.ok THEN "executed" ELSE "failed"]} :
       /\ orders' = ords
       /\ KitProceed(s, KitTakenUp(sr, o, orders[o].amount), ords)
  /\ UNCHANGED <<fundVars, envVars, orderCounter, navCalls, calls, applyCount,
                 pendingView>>

\* a direct call of the Kit updateNAV(fundMint, newNAV) up to its awaits
KitUpdateNAV(newNAV) ==
  /\ calls < MaxCalls
  /\ calls' = calls + 1
  /\ navCalls' = navCalls + 1
  /\ currentNAV' = newNAV
  /\ lastStrikeTime' = lastStrikeTime + 1
  /\ UNCHANGED <<totalAUM, totalSharesOutstanding, envVars,
                 pendingOrders, orderCounter, orders, strike, submitCount,
                 applyCount, pendingView>>

\* the direct Kit updateNAV returns its signature or throws
KitUpdateNAVReturn(outcome) ==
  /\ navCalls > 0
  /\ navCalls' = navCalls - 1
  /\ UNCHANGED <<fundVars, envVars, pendingOrders, orderCounter,
                 orders, strike, calls, submitCount, applyCount, pendingView>>

\* both engines side by side: from every state the next call, or the next
\* resumption after an await, may be made on either engine; strikes are
\* called one at a time and the inputs are valid ones
EquivNext ==
  \/ \E t \in OrderTypes :
       orderCounter < MaxQueued /\ QueueOrder(t, MaxAmount)
  \/ \E t \in OrderTypes :
       orderCounter < MaxQueued /\ KitQueueOrder(t, MaxAmount)
  \/ \E s \in Strikes, n \in NavInputs \ {Zero} :
       (\A u \in Strikes : ~InProgress(u)) /\ ExecuteStrike(s, n)
  \/ \E s \in Strikes, n \in NavInputs \ {Zero} :
       (\A u \in Strikes : ~InProgress(u)) /\ KitExecuteStrike(s, n)
  \/ \E s \in Strikes, r \in Outcomes : LedgerRespond(s, r)
  \/ \E s \in Strikes : StrikeAfterNAV(s)
  \/ \E s \in Strikes : KitStrikeAfterNAV(s)
  \/ \E s \in Strikes : SettlementResume(s)
  \/ \E s \in Strikes : KitSettlementResume(s)
  \/ \E s \in Strikes : StrikeContinue(s)
  \/ \E s \in Strikes : KitStrikeContinue(s)
  \/ \E n \in NavInputs \ {Zero} : UpdateNAV(n)
  \/ \E n \in NavInputs \ {Zero} : KitUpdateNAV(n)
  \/ \E r \in Outcomes : UpdateNAVReturn(r)
  \/ \E r \in Outcomes : KitUpdateNAVReturn(r)

EquivSpec == QueueInit /\ [][EquivNext]_vars

\* C35: the two engine implementations are equivalent on the core: from the
\* same state, the same call (queueOrder, executeStrike, updateNAV) with the
\* same arguments, and the same resumption after the same ledger outcome,
\* lead both engines to the same order statuses, queue, currentNAV, totalAUM,
\* totalSharesOutstanding and strike report aggregates; so the same sequence
\* of calls and outcomes leads them through the same states.
C35_SameStep ==
  /\ \A t \in OrderTypes :
       QueueOrder(t, MaxAmount) <=> KitQueueOrder(t, MaxAmount)
  /\ \A s \in Strikes, n \in NavInputs :
       ExecuteStrike(s, n) <=> KitExecuteStrike(s, n)
  /\ \A s \in Strikes :
       /\ StrikeAfterNAV(s) <=> KitStrikeAfterNAV(s)
       /\ SettlementResume(s) <=> KitSettlementResume(s)
       /\ StrikeContinue(s) <=> KitStrikeContinue(s)
  /\ \A n \in NavInputs : UpdateNAV(n) <=> KitUpdateNAV(n)
  /\ \A r \in Outcomes : UpdateNAVReturn(r) <=> KitUpdateNAVReturn(r)

C35_EnginesEquivalent == [][C35_SameStep]_vars

C35_Witness ==
  /\ Returned(1)
  /\ strike[1].subscriptionsProcessed = 1
  /\ strike[1].redemptionsProcessed = 1
  /\ Len(strike[1].attempted) = 3
  /\ strike[1].nav = <<3, 1>>
  /\ navCalls > 0

====
